---- MODULE Spec2Model ----
(***************************************************************************)
(* Push board: the persisted task list (PersistantList), the table with    *)
(* its per-row check boxes and worker-handle list (PushBoardTable), the    *)
(* push / abort handlers of the form (Form) and the worker thread          *)
(* (PushWorker.run).                                                       *)
(*                                                                         *)
(* Positions are 1-based here; the source's list index i is position i+1.  *)
(* The coordinating (GUI) thread runs one handler at a time.  A handler is *)
(* one action, except the push handlers, which are cut between             *)
(* worker.start() and status_signal.connect(...) (ui.py 406/407): that is  *)
(* the only place where a worker thread can observe the handler half done. *)
(* Worker threads take their steps at any time.  A status emitted by a     *)
(* worker is posted to the GUI thread's event queue when a slot is         *)
(* connected at that moment, and is dropped otherwise.                     *)
(*                                                                         *)
(* Spec is the whole program.  SpecPush is Spec without edits of the table *)
(* (the tasks are those of the loaded document), SpecBoard is Spec with at *)
(* most MaxBoardWorkers workers started, and SpecRun is SpecPush with at   *)
(* most MaxRunTasks loaded tasks and at most MaxBoardWorkers workers; all  *)
(* three are sub-behaviours of Spec.                                       *)
(***************************************************************************)
EXTENDS Naturals, Sequences, FiniteSets

VARIABLES
    data,       \* PushBoardTable.data: the in-memory task list; id is the identity of the dict object
    file,       \* the JSON document pushboard.json
    rows,       \* table rows: the Save check box of each row and the row its handler captured
    workers,    \* PushBoardTable.workers: worker ids, 0 for None
    err,        \* TRUE when the last GUI-thread handler ended by an exception
    todo,       \* positions the running push handler has still to push
    cur,        \* worker started by the push handler and not yet connected, 0 when none
    nW,         \* number of PushWorker objects created so far
    wpc,        \* position of each worker thread in run()
    abortReq,   \* PushWorker._abort_requested
    connected,  \* TRUE once status_signal has its slot
    widx,       \* the index captured by the slot of the worker
    wsave,      \* PushWorker.save
    wtask,      \* identity of the task record the worker was created for
    sess,       \* the worker's session: "none", "open" or "closed"
    calls,      \* the external calls the worker made, in order
    emitted,    \* the statuses the worker emitted, in order
    applied,    \* the statuses of the worker handed to _update_status, in order
    queue,      \* queued slot calls of the GUI thread: <<worker, status, n>>, n the number
                \* of workers created when the status was emitted
    edits       \* number of edits of the table made so far (add, delete, clear, check box)

vars == <<data, file, rows, workers, err, todo, cur, nW, wpc, abortReq,
          connected, widx, wsave, wtask, sess, calls, emitted, applied, queue, edits>>

guiVars == <<data, file, rows, workers, err, todo, cur, edits>>
workerVars == <<nW, wpc, abortReq, connected, widx, wsave, wtask, sess, calls, emitted>>

\* Bounds of the model.
MaxTasks == 2
MaxWorkers == 2
MaxLoaded == 2
MaxEdits == 3
MaxBoardWorkers == 1
MaxRunTasks == 1
MaxImportRows == 3

Targets == {"r1", "r2"}
Configs == {"c1"}
LoadedTargets == {"r1"}
LoadedStatuses == {"Pending"}

Workers == 1..MaxWorkers
Terminal == {"Pushed", "Aborted", "Failed"}

\* ------------------------------------------------------------------ helpers

RemoveAt(s, i) == SubSeq(s, 1, i - 1) \o SubSeq(s, i + 1, Len(s))

\* list.insert(index, x): an index past the end appends.
InsertAt(s, i, x) ==
    LET k == IF i > Len(s) + 1 THEN Len(s) + 1 ELSE i
    IN  SubSeq(s, 1, k - 1) \o <<x>> \o SubSeq(s, k, Len(s))

\* The value of a task record: what dict equality compares and json.dump writes.
TaskValue(t) == [target |-> t.target, config |-> t.config, save |-> t.save, status |-> t.status]

\* json.dump(self, f): the document holds the values of the records, in order.
Dump(d) == [i \in 1..Len(d) |-> TaskValue(d[i])]

\* json.load + extend: the records of the document, in order, as new dict objects.
Load(doc, firstId) ==
    [i \in 1..Len(doc) |-> [id |-> firstId + i - 1, target |-> doc[i].target,
                            config |-> doc[i].config, save |-> doc[i].save,
                            status |-> doc[i].status]]

\* list.remove(item): removes the first element equal to item.
ListRemove(d, item) ==
    LET j == CHOOSE k \in 1..Len(d) :
                 /\ TaskValue(d[k]) = TaskValue(item)
                 /\ \A m \in 1..(k - 1) : TaskValue(d[m]) # TaskValue(item)
    IN  RemoveAt(d, j)

\* The elements of a set of positions in increasing order (iteration order of a
\* set of small non-negative ints).
RECURSIVE Ascending(_)
Ascending(S) ==
    IF S = {} THEN <<>>
    ELSE LET m == CHOOSE x \in S : \A y \in S : x <= y
         IN  <<m>> \o Ascending(S \ {m})

RECURSIVE ToPush(_, _)
\* The positions of p whose task is to be pushed: status # "Pushed" (ui.py 416,
\* 427) and non-empty target and config (ui.py 397).
ToPush(p, d) ==
    IF p = <<>> THEN <<>>
    ELSE LET i == Head(p)
             rest == ToPush(Tail(p), d)
         IN  IF d[i].status # "Pushed" /\ d[i].target # "" /\ d[i].config # ""
             THEN <<i>> \o rest ELSE rest

\* QThread.isRunning(): started and run() not yet returned.
IsRunning(w) == wpc[w] \notin {"none", "done"}

Idle == cur = 0

\* The identity of a newly made task record: one that no record of the list and no
\* worker's task has.
NewId ==
    CHOOSE n \in 1..(MaxTasks + MaxWorkers + 1) :
        /\ \A i \in 1..Len(data) : data[i].id # n
        /\ \A w \in Workers : wtask[w] # n
        /\ \A m \in 1..(n - 1) : (\E i \in 1..Len(data) : data[i].id = m)
                                  \/ (\E w \in Workers : wtask[w] = m)

\* Documents a previous session can have left behind.
TaskValues == [target : LoadedTargets, config : Configs, save : BOOLEAN, status : LoadedStatuses]
PersistedDocs == UNION {[1..n -> TaskValues] : n \in 0..MaxLoaded}

\* ------------------------------------------------------------------ Init

\* PushBoardTable.__init__: workers = [], data = PersistantList(...) which loads the
\* document when it exists and writes an empty one otherwise, then load_rows.
Init ==
    /\ \E isfile \in BOOLEAN :
         \E doc \in (IF isfile THEN PersistedDocs ELSE {<<>>}) :
            /\ data = Load(doc, 1)
            /\ file = doc
            /\ rows = [i \in 1..Len(doc) |-> [checked |-> doc[i].save, row |-> i]]
    /\ workers = <<>>
    /\ err = FALSE
    /\ todo = <<>>
    /\ cur = 0
    /\ nW = 0
    /\ wpc = [w \in Workers |-> "none"]
    /\ abortReq = [w \in Workers |-> FALSE]
    /\ connected = [w \in Workers |-> FALSE]
    /\ widx = [w \in Workers |-> 0]
    /\ wsave = [w \in Workers |-> FALSE]
    /\ wtask = [w \in Workers |-> 0]
    /\ sess = [w \in Workers |-> "none"]
    /\ calls = [w \in Workers |-> <<>>]
    /\ emitted = [w \in Workers |-> <<>>]
    /\ applied = [w \in Workers |-> <<>>]
    /\ queue = <<>>
    /\ edits = 0

\* ------------------------------------------------------------------ store and table

\* add_row(target, config, "Pending") with the default save=True: a table row with a
\* checked box whose handler captures the row, the record appended and dumped, and a
\* None worker handle.
add_row(target, config) ==
    /\ Idle
    /\ edits < MaxEdits /\ edits' = edits + 1
    /\ Len(data) < MaxTasks
    /\ rows' = Append(rows, [checked |-> TRUE, row |-> Len(rows) + 1])
    /\ data' = Append(data, [id |-> NewId, target |-> target, config |-> config,
                             save |-> TRUE, status |-> "Pending"])
    /\ file' = Dump(data')
    /\ workers' = Append(workers, 0)
    /\ err' = FALSE
    /\ UNCHANGED <<todo, cur, applied, queue>>
    /\ UNCHANGED workerVars

\* delete_row with row r the first selected one: the table row goes, the first record
\* equal to data[r] is removed and dumped, then workers.pop(r), which raises IndexError
\* when the handle list is too short.
delete_row(r) ==
    /\ Idle
    /\ edits < MaxEdits /\ edits' = edits + 1
    /\ r \in 1..Len(rows)
    /\ rows' = RemoveAt(rows, r)
    /\ data' = ListRemove(data, data[r])
    /\ file' = Dump(data')
    /\ IF r <= Len(workers)
       THEN workers' = RemoveAt(workers, r) /\ err' = FALSE
       ELSE workers' = workers /\ err' = TRUE
    /\ UNCHANGED <<todo, cur, applied, queue>>
    /\ UNCHANGED workerVars

\* clear_all
clear_all ==
    /\ Idle
    /\ edits < MaxEdits /\ edits' = edits + 1
    /\ rows' = <<>>
    /\ data' = <<>>
    /\ file' = Dump(data')
    /\ workers' = <<>>
    /\ err' = FALSE
    /\ UNCHANGED <<todo, cur, applied, queue>>
    /\ UNCHANGED workerVars

\* on_checkbox_changed without the dump after the write.
on_checkbox_changed_NoDump(r) ==
    /\ Idle
    /\ edits < MaxEdits /\ edits' = edits + 1
    /\ r \in 1..Len(rows)
    /\ rows' = [rows EXCEPT ![r].checked = ~@]
    /\ IF rows[r].row <= Len(data)
       THEN /\ data' = [data EXCEPT ![rows[r].row].save = ~rows[r].checked]
            /\ err' = FALSE
       ELSE /\ data' = data
            /\ err' = TRUE
    /\ UNCHANGED <<file, workers, todo, cur, applied, queue>>
    /\ UNCHANGED workerVars

\* on_checkbox_changed of the box in row r, toggled by the user: the handler writes the
\* new state to data[row] for the row it captured when the box was made, then dumps.
\* data[row] raises IndexError when the captured row is past the end.
on_checkbox_changed(r) ==
    /\ Idle
    /\ edits < MaxEdits /\ edits' = edits + 1
    /\ r \in 1..Len(rows)
    /\ rows' = [rows EXCEPT ![r].checked = ~@]
    /\ IF rows[r].row <= Len(data)
       THEN /\ data' = [data EXCEPT ![rows[r].row].save = ~rows[r].checked]
            /\ file' = Dump(data')
            /\ err' = FALSE
       ELSE /\ UNCHANGED <<data, file>>
            /\ err' = TRUE
    /\ UNCHANGED <<workers, todo, cur, applied, queue>>
    /\ UNCHANGED workerVars

\* ------------------------------------------------------------------ import

\* str.strip() on a field of the CSV file, a sequence of characters: the blanks
\* at both ends go.
RECURSIVE LStrip(_)
LStrip(s) == IF s # <<>> /\ Head(s) = " " THEN LStrip(Tail(s)) ELSE s

RECURSIVE RStrip(_)
RStrip(s) == IF s # <<>> /\ s[Len(s)] = " " THEN RStrip(SubSeq(s, 1, Len(s) - 1)) ELSE s

Strip(s) == RStrip(LStrip(s))

\* The str of a sequence of characters.
RECURSIVE Text(_)
Text(s) == IF s = <<>> THEN "" ELSE Head(s) \o Text(Tail(s))

\* Rows csv.reader can yield: one field, two fields, three fields with blanks
\* around the first two, a blank target, an empty config.
ImportRows ==
    { << <<"r", "1">> >>,
      << <<"r", "1">>, <<"c", "1">> >>,
      << <<" ", "r", "2", " ">>, <<"c", "1", " ">>, <<"x">> >>,
      << <<" ">>, <<"c", "1">> >>,
      << <<"r", "1">>, <<>> >> }

ImportFiles == UNION {[1..n -> ImportRows] : n \in 0..MaxImportRows}

\* The loop of import_csv that stops at the first row it does not take.
RECURSIVE Imported_StopAtBad(_)
Imported_StopAtBad(rws) ==
    IF rws = <<>> THEN <<>>
    ELSE LET row == Head(rws)
         IN  IF Len(row) < 2 THEN <<>>
             ELSE LET target == Text(Strip(row[1]))
                      config == Text(Strip(row[2]))
                  IN  IF target = "" \/ config = "" THEN <<>>
                      ELSE <<[target |-> target, config |-> config]>>
                               \o Imported_StopAtBad(Tail(rws))

\* The loop of import_csv (ui.py 381-389): the target and config handed to add_row,
\* row after row.
RECURSIVE Imported(_)
Imported(rws) ==
    IF rws = <<>> THEN <<>>
    ELSE LET row == Head(rws)
         IN  IF Len(row) < 2 THEN Imported(Tail(rws))
             ELSE LET target == Text(Strip(row[1]))
                      config == Text(Strip(row[2]))
                  IN  IF target = "" \/ config = "" THEN Imported(Tail(rws))
                      ELSE <<[target |-> target, config |-> config]>>
                               \o Imported(Tail(rws))

\* The identity of a record made when the list is d.
NewIdIn(d) ==
    CHOOSE n \in 1..(MaxTasks + MaxWorkers + 1) :
        /\ \A i \in 1..Len(d) : d[i].id # n
        /\ \A w \in Workers : wtask[w] # n
        /\ \A m \in 1..(n - 1) : (\E i \in 1..Len(d) : d[i].id = m)
                                  \/ (\E w \in Workers : wtask[w] = m)

\* data after add_row(target, config, "Pending") for each element of add in turn.
RECURSIVE AddRows(_, _)
AddRows(d, add) ==
    IF add = <<>> THEN d
    ELSE AddRows(Append(d, [id |-> NewIdIn(d), target |-> Head(add).target,
                            config |-> Head(add).config, save |-> TRUE,
                            status |-> "Pending"]),
                 Tail(add))

\* import_csv of a file with the rows rws, with the loop given: one add_row for
\* each row taken.
ImportWith(add) ==
    /\ Idle
    /\ edits < MaxEdits /\ edits' = edits + 1
    /\ Len(data) + Len(add) <= MaxTasks
    /\ rows' = rows \o [i \in 1..Len(add) |-> [checked |-> TRUE, row |-> Len(rows) + i]]
    /\ data' = AddRows(data, add)
    /\ file' = Dump(data')
    /\ workers' = workers \o [i \in 1..Len(add) |-> 0]
    /\ err' = FALSE
    /\ UNCHANGED <<todo, cur, applied, queue>>
    /\ UNCHANGED workerVars

import_csv_StopAtBad(rws) == ImportWith(Imported_StopAtBad(rws))

\* Form.import_csv for a file that opens and decodes, with the rows rws.
import_csv(rws) == ImportWith(Imported(rws))

\* ------------------------------------------------------------------ push

\* _push up to worker.start() (ui.py 401-406) for position i: the save flag is read
\* from the check box of row i, not from the record.
StartWorker(i) ==
    /\ nW' = nW + 1
    /\ wpc' = [wpc EXCEPT ![nW + 1] = "start"]
    /\ wsave' = [wsave EXCEPT ![nW + 1] = rows[i].checked]
    /\ widx' = [widx EXCEPT ![nW + 1] = i]
    /\ wtask' = [wtask EXCEPT ![nW + 1] = data[i].id]
    /\ cur' = nW + 1

\* A push handler over the positions p (in order): nothing to push ends it at once,
\* otherwise the first worker is created and started.
BeginPush(p) ==
    LET t == ToPush(p, data)
    IN  /\ Idle
        /\ nW + Len(t) <= MaxWorkers
        /\ err' = FALSE
        /\ IF t = <<>>
           THEN UNCHANGED <<todo, cur, nW, wpc, wsave, widx, wtask>>
           ELSE StartWorker(Head(t)) /\ todo' = Tail(t)
        /\ UNCHANGED <<data, file, rows, workers, abortReq, connected, sess,
                       calls, emitted, applied, queue>>
        /\ UNCHANGED edits

\* push_all: every position, in order.
push_all == BeginPush([i \in 1..Len(data) |-> i])

\* push_selected over the selected rows sel.
push_selected(sel) ==
    /\ sel # {}
    /\ BeginPush(Ascending(sel))

\* The rest of _push for the started worker (ui.py 407-408): the slot, bound to the
\* index, is connected and the worker is inserted into the handle list at the index.
\* The loop of the handler then goes on to its next position, or the handler returns.
PushRegister ==
    /\ cur # 0
    /\ connected' = [connected EXCEPT ![cur] = TRUE]
    /\ workers' = InsertAt(workers, widx[cur], cur)
    /\ IF todo # <<>>
       THEN StartWorker(Head(todo)) /\ todo' = Tail(todo)
       ELSE cur' = 0 /\ UNCHANGED <<todo, nW, wpc, wsave, widx, wtask>>
    /\ UNCHANGED <<data, file, rows, err, abortReq, sess, calls, emitted,
                   applied, queue>>
    /\ UNCHANGED edits

\* ------------------------------------------------------------------ abort

\* PushWorker.abort for every worker of W.
SetAbort(W) == [w \in Workers |-> abortReq[w] \/ w \in W]

\* abort_all that also drops the handles of the workers it asks to abort.
abort_all_DropsHandles ==
    /\ Idle
    /\ abortReq' = SetAbort({w \in Workers :
                       IsRunning(w) /\ \E i \in 1..Len(workers) : workers[i] = w})
    /\ workers' = [i \in 1..Len(workers) |->
                       IF workers[i] # 0 /\ IsRunning(workers[i]) THEN 0 ELSE workers[i]]
    /\ err' = FALSE
    /\ UNCHANGED <<data, file, rows, todo, cur, applied, queue>>
    /\ UNCHANGED <<nW, wpc, connected, widx, wsave, wtask, sess, calls, emitted>>
    /\ UNCHANGED edits

\* abort_all: every handle of the list that is a running worker.
abort_all ==
    /\ Idle
    /\ abortReq' = SetAbort({w \in Workers :
                       IsRunning(w) /\ \E i \in 1..Len(workers) : workers[i] = w})
    /\ err' = FALSE
    /\ UNCHANGED <<data, file, rows, workers, todo, cur, applied, queue>>
    /\ UNCHANGED <<nW, wpc, connected, widx, wsave, wtask, sess, calls, emitted>>
    /\ UNCHANGED edits

\* abort_selected over the selected rows sel, in increasing order: workers[index]
\* raises IndexError at the first row past the end of the handle list, after the rows
\* before it were handled.
abort_selected(sel) ==
    /\ Idle
    /\ sel # {}
    /\ sel \subseteq 1..Len(rows)
    /\ abortReq' = SetAbort({w \in Workers :
                       IsRunning(w) /\ \E i \in sel : i <= Len(workers) /\ workers[i] = w})
    /\ err' = (\E i \in sel : i > Len(workers))
    /\ UNCHANGED <<data, file, rows, workers, todo, cur, applied, queue>>
    /\ UNCHANGED <<nW, wpc, connected, widx, wsave, wtask, sess, calls, emitted>>
    /\ UNCHANGED edits

\* ------------------------------------------------------------------ status sink

\* _update_status that builds the record to store from the first row of the table.
_update_status_FirstRow ==
    /\ Idle
    /\ queue # <<>>
    /\ LET w == Head(queue)[1]
           status == Head(queue)[2]
           index == widx[w]
       IN  /\ applied' = [applied EXCEPT ![w] = Append(@, status)]
           /\ IF index <= Len(data)
              THEN /\ data' = [data EXCEPT ![index].status = status,
                                            ![index].target = data[1].target]
                   /\ file' = Dump(data')
                   /\ err' = FALSE
              ELSE /\ UNCHANGED <<data, file>>
                   /\ err' = TRUE
    /\ queue' = Tail(queue)
    /\ UNCHANGED <<rows, workers, todo, cur, edits>>
    /\ UNCHANGED workerVars

\* The queued slot call at the head of the GUI thread's queue: _update_status(index,
\* status) with the index the slot captured.  data[index] raises IndexError past the
\* end; otherwise the record's status is set and update_row stores and dumps it.
\* The target and config written back by update_row are those just read.
_update_status ==
    /\ Idle
    /\ queue # <<>>
    /\ LET w == Head(queue)[1]
           status == Head(queue)[2]
           index == widx[w]
       IN  /\ applied' = [applied EXCEPT ![w] = Append(@, status)]
           /\ IF index <= Len(data)
              THEN /\ data' = [data EXCEPT ![index].status = status]
                   /\ file' = Dump(data')
                   /\ err' = FALSE
              ELSE /\ UNCHANGED <<data, file>>
                   /\ err' = TRUE
    /\ queue' = Tail(queue)
    /\ UNCHANGED <<rows, workers, todo, cur, edits>>
    /\ UNCHANGED workerVars
    /\ UNCHANGED edits

\* ------------------------------------------------------------------ worker thread

\* Emit whose event is put in front of the events that wait.
Emit_Front(w, s) ==
    /\ emitted' = [emitted EXCEPT ![w] = Append(@, s)]
    /\ queue' = IF connected[w] THEN <<<<w, s, nW>>>> \o queue ELSE queue

\* status_signal.emit(s) in the thread of worker w.
Emit(w, s) ==
    /\ emitted' = [emitted EXCEPT ![w] = Append(@, s)]
    /\ queue' = IF connected[w] THEN Append(queue, <<w, s, nW>>) ELSE queue

\* Checkpoint1 that returns on abort without a status.
Checkpoint1_Silent(w) ==
    /\ wpc[w] = "start"
    /\ IF abortReq[w]
       THEN UNCHANGED <<emitted, queue>> /\ wpc' = [wpc EXCEPT ![w] = "done"]
       ELSE Emit(w, "Connecting") /\ wpc' = [wpc EXCEPT ![w] = "connect"]
    /\ UNCHANGED <<sess, calls>>

\* workers.py 21-26: the first checkpoint.
Checkpoint1(w) ==
    /\ wpc[w] = "start"
    /\ IF abortReq[w]
       THEN Emit(w, "Aborted") /\ wpc' = [wpc EXCEPT ![w] = "done"]
       ELSE Emit(w, "Connecting") /\ wpc' = [wpc EXCEPT ![w] = "connect"]
    /\ UNCHANGED <<sess, calls>>

\* Connect whose failure ends the run without a status.
Connect_Unreported(w, ok) ==
    /\ wpc[w] = "connect"
    /\ calls' = [calls EXCEPT ![w] = Append(@, "connect")]
    /\ wpc' = [wpc EXCEPT ![w] = IF ok THEN "cp2" ELSE "done"]
    /\ sess' = [sess EXCEPT ![w] = IF ok THEN "open" ELSE @]
    /\ UNCHANGED <<emitted, queue>>

\* workers.py 28-42: the session is built; a failure goes to the except clause.
Connect(w, ok) ==
    /\ wpc[w] = "connect"
    /\ calls' = [calls EXCEPT ![w] = Append(@, "connect")]
    /\ IF ok
       THEN /\ sess' = [sess EXCEPT ![w] = "open"]
            /\ wpc' = [wpc EXCEPT ![w] = "cp2"]
            /\ UNCHANGED <<emitted, queue>>
       ELSE /\ Emit(w, "Failed")
            /\ wpc' = [wpc EXCEPT ![w] = "done"]
            /\ UNCHANGED sess

\* Checkpoint2 that goes on to send_config_set after it emitted Aborted.
Checkpoint2_NoReturn(w) ==
    /\ wpc[w] = "cp2"
    /\ IF abortReq[w] THEN Emit(w, "Aborted") ELSE Emit(w, "Pushing")
    /\ wpc' = [wpc EXCEPT ![w] = "send"]
    /\ UNCHANGED <<sess, calls>>

\* workers.py 44-50: the second checkpoint; on abort Aborted is emitted and close
\* follows.
Checkpoint2(w) ==
    /\ wpc[w] = "cp2"
    /\ IF abortReq[w]
       THEN Emit(w, "Aborted") /\ wpc' = [wpc EXCEPT ![w] = "close"]
       ELSE Emit(w, "Pushing") /\ wpc' = [wpc EXCEPT ![w] = "send"]
    /\ UNCHANGED <<sess, calls>>

\* SendConfig with the test of self.save (workers.py 53) left out.
SendConfig_SaveAlways(w, ok) ==
    /\ wpc[w] = "send"
    /\ calls' = [calls EXCEPT ![w] = Append(@, "send")]
    /\ IF ok
       THEN /\ wpc' = [wpc EXCEPT ![w] = "save"]
            /\ UNCHANGED <<emitted, queue>>
       ELSE /\ Emit(w, "Failed")
            /\ wpc' = [wpc EXCEPT ![w] = "done"]
    /\ UNCHANGED sess

\* workers.py 52-53: send_config_set; a failure goes to the except clause, which
\* does not close the session.
SendConfig(w, ok) ==
    /\ wpc[w] = "send"
    /\ calls' = [calls EXCEPT ![w] = Append(@, "send")]
    /\ IF ok
       THEN /\ wpc' = [wpc EXCEPT ![w] = IF wsave[w] THEN "save" ELSE "cp3"]
            /\ UNCHANGED <<emitted, queue>>
       ELSE /\ Emit(w, "Failed")
            /\ wpc' = [wpc EXCEPT ![w] = "done"]
    /\ UNCHANGED sess

\* workers.py 54: save_config
SaveConfig(w, ok) ==
    /\ wpc[w] = "save"
    /\ calls' = [calls EXCEPT ![w] = Append(@, "save")]
    /\ IF ok
       THEN /\ wpc' = [wpc EXCEPT ![w] = "cp3"]
            /\ UNCHANGED <<emitted, queue>>
       ELSE /\ Emit(w, "Failed")
            /\ wpc' = [wpc EXCEPT ![w] = "done"]
    /\ UNCHANGED sess

\* Checkpoint3 with the test of the abort flag inverted.
Checkpoint3_Inverted(w) ==
    /\ wpc[w] = "cp3"
    /\ IF abortReq[w] THEN Emit(w, "Pushed") ELSE Emit(w, "Aborted")
    /\ wpc' = [wpc EXCEPT ![w] = "close"]
    /\ UNCHANGED <<sess, calls>>

\* workers.py 56-59: the third checkpoint.
Checkpoint3(w) ==
    /\ wpc[w] = "cp3"
    /\ IF abortReq[w] THEN Emit(w, "Aborted") ELSE Emit(w, "Pushed")
    /\ wpc' = [wpc EXCEPT ![w] = "close"]
    /\ UNCHANGED <<sess, calls>>

\* workers.py 46 and 61: handler.close(); a failure goes to the except clause, which
\* emits Failed.
Close(w, ok) ==
    /\ wpc[w] = "close"
    /\ calls' = [calls EXCEPT ![w] = Append(@, "close")]
    /\ sess' = [sess EXCEPT ![w] = "closed"]
    /\ IF ok THEN UNCHANGED <<emitted, queue>> ELSE Emit(w, "Failed")
    /\ wpc' = [wpc EXCEPT ![w] = "done"]

\* One step of PushWorker.run in the thread of worker w.
run(w) ==
    /\ \/ Checkpoint1(w)
       \/ \E ok \in BOOLEAN : Connect(w, ok)
       \/ Checkpoint2(w)
       \/ \E ok \in BOOLEAN : SendConfig(w, ok)
       \/ \E ok \in BOOLEAN : SaveConfig(w, ok)
       \/ Checkpoint3(w)
       \/ \E ok \in BOOLEAN : Close(w, ok)
    /\ UNCHANGED <<nW, abortReq, connected, widx, wsave, wtask, applied>>
    /\ UNCHANGED guiVars

\* ------------------------------------------------------------------ specification

Next ==
    \/ \E t \in Targets, c \in Configs : add_row(t, c)
    \/ \E r \in 1..MaxTasks : delete_row(r)
    \/ clear_all
    \/ \E r \in 1..MaxTasks : on_checkbox_changed(r)
    \/ \E rws \in ImportFiles : import_csv(rws)
    \/ push_all
    \/ \E sel \in SUBSET (1..Len(data)) : push_selected(sel)
    \/ PushRegister
    \/ abort_all
    \/ \E sel \in SUBSET (1..MaxTasks) : abort_selected(sel)
    \/ _update_status
    \/ \E w \in Workers : run(w)

Spec == Init /\ [][Next]_vars

\* Pushing and aborting the tasks of the loaded document: no edit of the table.
NextPush ==
    \/ push_all
    \/ \E sel \in SUBSET (1..Len(data)) : push_selected(sel)
    \/ PushRegister
    \/ abort_all
    \/ \E sel \in SUBSET (1..MaxTasks) : abort_selected(sel)
    \/ _update_status
    \/ \E w \in Workers : run(w)

SpecPush == Init /\ [][NextPush]_vars

\* Every operation but the import, with at most MaxBoardWorkers workers started.
NextBoard ==
    \/ \E t \in Targets, c \in Configs : add_row(t, c)
    \/ \E r \in 1..MaxTasks : delete_row(r)
    \/ clear_all
    \/ \E r \in 1..MaxTasks : on_checkbox_changed(r)
    \/ push_all /\ nW' <= MaxBoardWorkers
    \/ \E sel \in SUBSET (1..Len(data)) : push_selected(sel) /\ nW' <= MaxBoardWorkers
    \/ PushRegister /\ nW' <= MaxBoardWorkers
    \/ abort_all
    \/ \E sel \in SUBSET (1..MaxTasks) : abort_selected(sel)
    \/ _update_status
    \/ \E w \in Workers : run(w)

SpecBoard == Init /\ [][NextBoard]_vars

\* Pushing and aborting at most MaxRunTasks loaded tasks, with at most
\* MaxBoardWorkers workers started and no edit of the table.
InitRun == Init /\ Len(data) <= MaxRunTasks

NextRun ==
    \/ push_all /\ nW' <= MaxBoardWorkers
    \/ \E sel \in SUBSET (1..Len(data)) : push_selected(sel) /\ nW' <= MaxBoardWorkers
    \/ PushRegister /\ nW' <= MaxBoardWorkers
    \/ abort_all
    \/ \E sel \in SUBSET (1..MaxTasks) : abort_selected(sel)
    \/ _update_status
    \/ \E w \in Workers : run(w)

SpecRun == InitRun /\ [][NextRun]_vars

\* SpecRun with every started thread scheduled again and again, each external call
\* of run returning or raising: a step of run that stays possible is taken.
RunFairness == \A w \in Workers : WF_vars(run(w))

SpecRunFair == SpecRun /\ RunFairness

\* The edits of the table and the import, on at most MaxRunTasks loaded tasks: no
\* push.
NextImport ==
    \/ \E t \in Targets, c \in Configs : add_row(t, c)
    \/ \E r \in 1..MaxTasks : delete_row(r)
    \/ clear_all
    \/ \E r \in 1..MaxTasks : on_checkbox_changed(r)
    \/ \E rws \in ImportFiles : import_csv(rws)

SpecImport == InitRun /\ [][NextImport]_vars

\* ------------------------------------------------------------------ properties

Range(s) == {s[i] : i \in 1..Len(s)}

Started(w) == wpc[w] # "none"

\* The statuses of worker w that wait in the GUI thread's queue, in order.
QueueOf(w) ==
    LET q == SelectSeq(queue, LAMBDA e : e[1] = w)
    IN  [i \in 1..Len(q) |-> q[i][2]]

\* Worker w is the worker most recently started for the task at position p.
LatestFor(w, p) ==
    /\ Started(w)
    /\ wtask[w] = data[p].id
    /\ \A v \in Workers : (Started(v) /\ wtask[v] = wtask[w]) => v <= w

\* C1: the statuses a worker emits have Connecting before Pushing, each at most
\* once, and a terminal status (Pushed, Aborted, Failed) only as the last one.
C1_StatusSequence ==
    \A w \in Workers :
        LET e == emitted[w]
        IN  /\ \A i \in 1..Len(e) : e[i] \in Terminal => i = Len(e)
            /\ \A i, j \in 1..Len(e) :
                   (e[i] = e[j] /\ e[i] \in {"Connecting", "Pushing"}) => i = j
            /\ \A i, j \in 1..Len(e) :
                   (e[i] = "Connecting" /\ e[j] = "Pushing") => i < j

\* C2: a worker whose abort flag is set when it runs its first checkpoint emits
\* only Aborted and makes no external call, and when that event is applied the
\* record of its task has status Aborted.
C2_EarlyAbort ==
    [][\A w \in Workers :
          /\ (wpc[w] = "start" /\ abortReq[w] /\ wpc'[w] # "start")
                => (emitted'[w] = <<"Aborted">> /\ calls'[w] = <<>> /\ wpc'[w] = "done")
          /\ (emitted[w] = <<"Aborted">> /\ applied[w] = <<>> /\ applied'[w] = <<"Aborted">>)
                => \A i \in 1..Len(data') :
                       data'[i].id = wtask[w] => data'[i].status = "Aborted"]_vars

\* C3: a worker that finds the abort flag unset at the third checkpoint emits Pushed;
\* once it has emitted Pushed it never emits Aborted; and a step that sets an abort
\* flag changes neither the task list, nor the document, nor any emitted or queued
\* status.
C3_NoRetroactiveAbort ==
    [][/\ \A w \in Workers :
             /\ (wpc[w] = "cp3" /\ ~abortReq[w] /\ wpc'[w] # "cp3")
                   => emitted'[w] = Append(emitted[w], "Pushed")
             /\ "Pushed" \in Range(emitted[w]) => "Aborted" \notin Range(emitted'[w])
       /\ abortReq' # abortReq
             => (data' = data /\ file' = file /\ emitted' = emitted /\ queue' = queue)]_vars

\* C3 witness: the abort flag of a worker was set after it emitted Pushed, and the
\* stored status of its task is Pushed.
C3_Witness ==
    \E w \in Workers :
        /\ abortReq[w]
        /\ "Pushed" \in Range(emitted[w])
        /\ widx[w] <= Len(data)
        /\ data[widx[w]].id = wtask[w]
        /\ data[widx[w]].status = "Pushed"

\* C4: a worker that has returned holds no open session.
C4_SessionClosed ==
    \A w \in Workers : wpc[w] = "done" => sess[w] # "open"

\* C5: between handlers the handle list is as long as the task list.
C5_HandlesMatchTasks ==
    Idle => Len(workers) = Len(data)

\* C6: abort_selected of row p raises no error and sets the abort flag of exactly
\* the running worker most recently started for the task at p (of none when there
\* is no such worker); abort_all sets the flags of exactly those workers, for
\* every p.
C6_AbortTargets ==
    [][/\ \A p \in 1..Len(data) :
             abort_selected({p})
                => /\ ~err'
                   /\ \A w \in Workers :
                          abortReq'[w] = (abortReq[w] \/ (IsRunning(w) /\ LatestFor(w, p)))
       /\ abort_all
             => \A w \in Workers :
                    abortReq'[w] = (abortReq[w] \/ (IsRunning(w) /\
                                        \E p \in 1..Len(data) : LatestFor(w, p)))]_vars

\* C7: a status that a worker emitted after a newer worker was started at its
\* position does not change the task list when it is applied.
C7_SupersededIgnored ==
    [][\A w \in Workers :
          (/\ Idle
           /\ queue # <<>>
           /\ Head(queue)[1] = w
           /\ applied'[w] # applied[w]
           /\ \E v \in Workers : v > w /\ v <= Head(queue)[3] /\ widx[v] = widx[w])
             => data' = data]_vars

\* C8: every status a worker emitted was handed to the sink or waits in the queue,
\* in the order of emission.
C8_EveryEventDelivered ==
    \A w \in Workers : emitted[w] = applied[w] \o QueueOf(w)

\* C9: a worker with save set, never asked to abort, whose calls all succeeded, the
\* only worker started for its task, has called save_config exactly once, and when
\* it has returned and its statuses are applied the stored status of its task is
\* Pushed.
C9_SavedAndPushed ==
    \A w \in Workers :
        (/\ wsave[w]
         /\ ~abortReq[w]
         /\ wpc[w] = "done"
         /\ "Failed" \notin Range(emitted[w])
         /\ QueueOf(w) = <<>>
         /\ Idle
         /\ \A v \in Workers : wtask[v] = wtask[w] => v = w
         /\ widx[w] <= Len(data)
         /\ data[widx[w]].id = wtask[w])
           => /\ Cardinality({i \in 1..Len(calls[w]) : calls[w][i] = "save"}) = 1
              /\ data[widx[w]].status = "Pushed"

\* C10: a worker started with save unset never calls save_config.
C10_NoSaveWhenUnset ==
    \A w \in Workers : (Started(w) /\ ~wsave[w]) => "save" \notin Range(calls[w])

\* C10 witness: a worker with save unset has sent the config and emitted Pushed.
C10_Witness ==
    \E w \in Workers :
        /\ ~wsave[w]
        /\ "send" \in Range(calls[w])
        /\ "Pushed" \in Range(emitted[w])

\* The handle stored for position p; 0 when the handle list has none.
HandleAt(ws, p) == IF p <= Len(ws) THEN ws[p] ELSE 0

\* The positions for which the running push handler has started or will start a
\* worker, in order.
Planned == IF cur = 0 THEN <<>> ELSE <<widx[cur]>> \o todo

\* C11: push_all and push_selected start one worker for each addressed position
\* whose stored status is not Pushed, in order, one per step of the handler; no
\* step of a push handler starts a worker for a position whose status is Pushed,
\* changes the status of such a position or changes the handle stored for it.
C11_PushSkipsPushed ==
    [][/\ push_all
             => Planned' = SelectSeq([i \in 1..Len(data) |-> i],
                                     LAMBDA i : data[i].status # "Pushed")
       /\ \A sel \in SUBSET (1..Len(data)) :
             push_selected(sel)
                => Planned' = SelectSeq(Ascending(sel),
                                        LAMBDA i : data[i].status # "Pushed")
       /\ PushRegister
             => /\ Planned' = todo
                /\ nW' = nW + (IF todo = <<>> THEN 0 ELSE 1)
       /\ (push_all \/ PushRegister \/ \E sel \in SUBSET (1..Len(data)) : push_selected(sel))
             => \A p \in 1..Len(data) :
                    data[p].status = "Pushed"
                       => /\ data'[p] = data[p]
                          /\ (nW' # nW => widx'[nW'] # p)
                          /\ HandleAt(workers', p) = HandleAt(workers, p)]_vars

\* C12: the persisted document equals the in-memory task list after every
\* operation, and a store constructed from it holds the same tasks in the same
\* order; this includes the state after construction, where with no document
\* both are empty.
C12_PersistedRoundTrip ==
    /\ file = Dump(data)
    /\ Len(Load(file, 1)) = Len(data)
    /\ \A i \in 1..Len(data) : TaskValue(Load(file, 1)[i]) = TaskValue(data[i])

\* C12 witness: after edits of the table and an applied status update the document
\* holds two tasks, one of them Pushed with save unset.
C12_Witness ==
    /\ edits >= 2
    /\ Len(file) = 2
    /\ \E i \in 1..Len(file) : file[i].status = "Pushed" /\ ~file[i].save
    /\ file = Dump(data)

\* C13: a run that ends with a call of connect, send_config_set or save_config (the
\* call failed) emits Failed as its last status, whether or not an abort was
\* requested; when the call is connect the statuses are exactly Connecting, Failed
\* and connect is the only call made; connect is never called twice; and a worker
\* that has returned makes no further call and emits nothing more.
C13_FailureReported ==
    [][\A w \in Workers :
          /\ (/\ calls'[w] # calls[w]
              /\ calls'[w][Len(calls'[w])] \in {"connect", "send", "save"}
              /\ wpc'[w] = "done")
                => emitted'[w] = Append(emitted[w], "Failed")
          /\ (wpc[w] = "connect" /\ wpc'[w] = "done")
                => /\ emitted'[w] = <<"Connecting", "Failed">>
                   /\ calls'[w] = <<"connect">>
          /\ Cardinality({i \in 1..Len(calls'[w]) : calls'[w][i] = "connect"}) <= 1
          /\ wpc[w] = "done"
                => (wpc'[w] = "done" /\ calls'[w] = calls[w] /\ emitted'[w] = emitted[w])]_vars

\* C13 witness: a worker whose connect failed has returned and its Failed status
\* is the stored status of its task.
C13_Witness ==
    \E w \in Workers :
        /\ wpc[w] = "done"
        /\ calls[w] = <<"connect">>
        /\ emitted[w] = <<"Connecting", "Failed">>
        /\ ~abortReq[w]
        /\ widx[w] <= Len(data)
        /\ data[widx[w]].status = "Failed"

\* C14: when a status event of a worker is applied, every record other than the
\* record of the task the worker was started for is left as it was.
C14_EventReachesOwnTask ==
    [][\A w \in Workers :
          applied'[w] # applied[w]
             => /\ Len(data') = Len(data)
                /\ \A i \in 1..Len(data) :
                       data[i].id # wtask[w] => data'[i] = data[i]]_vars

\* s is t without some of its first elements.
IsSuffix(s, t) == Len(s) <= Len(t) /\ s = SubSeq(t, Len(t) - Len(s) + 1, Len(t))

\* C15: the statuses of a worker that were applied, followed by those that wait in
\* the queue, are consecutive statuses of the worker in the order it emitted them,
\* up to the last one emitted, whatever the other workers and the GUI thread did
\* in between.
C15_FifoPerWorker ==
    \A w \in Workers : IsSuffix(applied[w] \o QueueOf(w), emitted[w])

\* C15 witness: two workers have each had two or more statuses applied, and an
\* event of worker 2 waits in the queue between events of worker 1.
C15_Witness ==
    /\ \A w \in Workers : Len(applied[w]) >= 2 /\ QueueOf(w) # <<>>
    /\ Head(queue)[1] = 1
    /\ queue[Len(queue)][1] = 1
    /\ \E i \in 1..Len(queue) : queue[i][1] = 2

\* C16: a record that is in the task list before and after a step has the same
\* target and config after it.
C16_TargetConfigFixed ==
    [][\A i \in 1..Len(data) : \A j \in 1..Len(data') :
          data[i].id = data'[j].id
             => (data'[j].target = data[i].target /\ data'[j].config = data[i].config)]_vars

\* C16 witness: after MaxEdits edits of the table the first loaded task is the only
\* one left; it was pushed, its worker was asked to abort, its status is Pushed and
\* it has its target.
C16_Witness ==
    /\ edits = MaxEdits
    /\ Len(data) = 1
    /\ data[1].target = "r1"
    /\ data[1].id = 1
    /\ data[1].status = "Pushed"
    /\ \E w \in Workers : wtask[w] = 1 /\ abortReq[w]

\* A row of an import file that has two or more fields and whose first two fields
\* are not empty after trimming.
Importable(row) == Len(row) >= 2 /\ Strip(row[1]) # <<>> /\ Strip(row[2]) # <<>>

\* C17: import_csv raises nothing and appends to the task list, in the order of
\* the file, one Pending task for each importable row, with the trimmed first
\* field as target and the trimmed second field as config, and nothing for the
\* other rows, wherever they are in the file.
C17_ImportAppends ==
    [][\A rws \in ImportFiles :
          (Len(rows') >= Len(rows) /\ import_csv(rws))
             => LET good == SelectSeq(rws, Importable)
                IN  /\ ~err'
                    /\ Len(data') = Len(data) + Len(good)
                    /\ SubSeq(data', 1, Len(data)) = data
                    /\ \A k \in 1..Len(good) :
                           /\ data'[Len(data) + k].target = Text(Strip(good[k][1]))
                           /\ data'[Len(data) + k].config = Text(Strip(good[k][2]))
                           /\ data'[Len(data) + k].status = "Pending"]_vars

\* C17 witness: two tasks were imported into an empty list from a file of three
\* rows whose second row was skipped; the second task comes from a row with
\* blanks around its fields.
C17_Witness ==
    /\ edits = 1
    /\ Len(data) = 2
    /\ data[1].target = "r1" /\ data[2].target = "r2"
    /\ data[1].status = "Pending" /\ data[2].status = "Pending"
    /\ file = Dump(data)

\* C18: a step of abort_all or abort_selected, and any step that sets an abort
\* flag, leaves the task list, the document, the table rows and the handle list as
\* they were, and no worker has moved, made a call or emitted a status when the
\* handler returns.
C18_AbortOnlySetsFlags ==
    [][(\/ abort_all
        \/ \E sel \in SUBSET (1..MaxTasks) : abort_selected(sel)
        \/ abortReq' # abortReq)
          => /\ data' = data /\ file' = file /\ rows' = rows /\ workers' = workers
             /\ wpc' = wpc /\ sess' = sess /\ calls' = calls
             /\ emitted' = emitted /\ queue' = queue /\ applied' = applied]_vars

\* C18 witness: the abort handler has returned, the worker it asked to abort is
\* still connected to the device and running, and its handle is in the handle list.
C18_Witness ==
    \E w \in Workers :
        /\ Idle
        /\ abortReq[w]
        /\ IsRunning(w)
        /\ sess[w] = "open"
        /\ \E i \in 1..Len(workers) : workers[i] = w

\* C19: the calls of one run are connect, send_config_set, save_config and close
\* in this order, each at most once, send_config_set only after connect and
\* save_config only after send_config_set; send_config_set is called only when the
\* second checkpoint found the flag unset (Pushing was emitted); after a Failed
\* status the run has ended, so no call follows a failed one; and a run that
\* emitted Aborted at the second checkpoint never calls send_config_set or
\* save_config and has closed the session when it has returned.
C19_CallOrder ==
    \A w \in Workers :
        LET c == calls[w]
            e == emitted[w]
        IN  /\ c \in {<<>>, <<"connect">>, <<"connect", "close">>,
                      <<"connect", "send">>, <<"connect", "send", "close">>,
                      <<"connect", "send", "save">>,
                      <<"connect", "send", "save", "close">>}
            /\ "send" \in Range(c) => (Len(e) >= 2 /\ e[2] = "Pushing")
            /\ "Failed" \in Range(e) => wpc[w] = "done"
            /\ (Len(e) >= 2 /\ e[2] = "Aborted")
                  => /\ "send" \notin Range(c) /\ "save" \notin Range(c)
                     /\ wpc[w] = "done" => (c = <<"connect", "close">> /\ sess[w] = "closed")

\* C19 witness: a run has made all four calls and emitted Pushed.
C19_Witness ==
    \E w \in Workers :
        /\ calls[w] = <<"connect", "send", "save", "close">>
        /\ emitted[w] = <<"Connecting", "Pushing", "Pushed">>
        /\ wpc[w] = "done"

\* C20: a record of the task list whose status is Pushed still has status Pushed
\* after every step that leaves it in the list.
C20_PushedIsFinal ==
    [][\A i \in 1..Len(data) : \A j \in 1..Len(data') :
          (data[i].id = data'[j].id /\ data[i].status = "Pushed")
             => data'[j].status = "Pushed"]_vars

\* C21: a worker that has returned from run has emitted a terminal status (Pushed,
\* Aborted or Failed), and every started worker eventually returns from run.
C21_WorkerTerminates ==
    \A w \in Workers :
        /\ [](wpc[w] = "done" => \E i \in 1..Len(emitted[w]) : emitted[w][i] \in Terminal)
        /\ Started(w) ~> (wpc[w] = "done")

\* C21 witness: a worker asked to abort while it connected has emitted Aborted at
\* the second checkpoint, closed the session and returned.
C21_Witness ==
    \E w \in Workers :
        /\ wpc[w] = "done"
        /\ emitted[w] = <<"Connecting", "Aborted">>
        /\ calls[w] = <<"connect", "close">>
        /\ sess[w] = "closed"

====
